---- MODULE Spec2Model ----
(***************************************************************************)
(* Model of sharexhandler's router.go: the upload handler                  *)
(* (handleUploadRequest) and the download handler (handleGetRequest) of    *)
(* ShareXHandler, running against the Storage / StorageEntry collaborator  *)
(* and an http.ResponseWriter.                                             *)
(*                                                                         *)
(* Strings are sequences of one-character strings, so that LastIndex,      *)
(* slicing, concatenation and EqualFold are computed, not assumed.         *)
(* File bytes are sequences of small integers.  The text written by        *)
(* http.Error / http.NotFound is a fixed sequence that differs from every  *)
(* payload.                                                                *)
(*                                                                         *)
(* The response is modelled at the http.ResponseWriter contract: the first *)
(* WriteHeader fixes the status and the headers the client receives, later *)
(* WriteHeader calls and header changes are without effect, Write appends  *)
(* to the body (and fixes status 200 when none was written).  A panic ends *)
(* the handler; deferred calls run.                                        *)
(***************************************************************************)
EXTENDS Integers, Sequences, FiniteSets, TLC

(* ------------------------------ bounds -------------------------------- *)
\* number of upload requests served in one behaviour
MaxUploads == 1
\* number of download requests served in one behaviour
MaxGets == 2
\* number of parts a multipart stream delivers at most
MaxParts == 2
\* largest configured BufferSize
MaxBuf == 2

(* ------------------------------ inputs -------------------------------- *)
\* payloads of the parts after the first
Datas == { <<>>, <<1>>, <<0, 1>> }
\* first parts of an upload: content types that fold to a whitelist member
\* ("I/P", "t/x") and one that does not ("a/o"); file names with one dot,
\* two dots and no dot; empty and non-empty payloads
FirstParts ==
  { [contentType |-> <<"I", "/", "P">>, filename |-> <<"p", ".", "g">>,
     data |-> <<0, 1>>],
    [contentType |-> <<"t", "/", "x">>, filename |-> <<"a", ".", "b", ".", "g">>,
     data |-> <<1>>],
    [contentType |-> <<"a", "/", "o">>, filename |-> <<"p", ".", "g">>,
     data |-> <<>>],
    [contentType |-> <<"a", "/", "o">>, filename |-> <<"a", ".", "b", ".", "g">>,
     data |-> <<0, 1>>],
    [contentType |-> <<"I", "/", "P">>, filename |-> <<"p">>,
     data |-> <<1>>] }
\* ETag values the storage may derive; the empty string is one of them
ETags == { "", "e" }
\* If-None-Match header values of a request; "" is the absent header
\* (Header.Get returns "" for a header that is not set)
IfNoneMatchValues == { "", "e", "f" }
\* Content-Type headers of an upload request, as token sequences
UploadHeaders ==
  { <<>>,
    << "multipart/form-data" >>,
    << "multipart/form-data", ";", "boundary" >>,
    << "multipart/form-data", ";", "boundary", "=", "X" >> }

(* --------------------------- configuration ---------------------------- *)
ProtocolHost == << "h", "/" >>
WhitelistedContentTypes == << <<"i", "/", "p">>, <<"T", "/", "X">> >>
dispositionValueFormat(kind, name) == << kind, "; filename=\"", name, "\"" >>

(* ------------------------------ strings ------------------------------- *)
\* strings.LastIndex(s, sep) for a one-character sep: 0-based, -1 if absent
LastIndex(s, sep) ==
  IF \E i \in 1..Len(s) : s[i] = sep
  THEN (CHOOSE i \in 1..Len(s) :
          /\ s[i] = sep
          /\ \A j \in (i + 1)..Len(s) : s[j] # sep) - 1
  ELSE -1

\* s[i:] and s[:i]; Go panics unless 0 <= i <= len(s)
SliceOk(s, i) == 0 <= i /\ i <= Len(s)
SliceFrom(s, i) == SubSeq(s, i + 1, Len(s))
SliceTo(s, i) == SubSeq(s, 1, i)

\* simple case folding of one character
Fold(c) ==
  CASE c = "I" -> "i"
    [] c = "P" -> "p"
    [] c = "T" -> "t"
    [] c = "X" -> "x"
    [] OTHER -> c

\* strings.EqualFold
EqualExact(s, t) == s = t
EqualFold(s, t) ==
  /\ Len(s) = Len(t)
  /\ \A i \in 1..Len(s) : Fold(s[i]) = Fold(t[i])

(* ----------------------- mime.ParseMediaType -------------------------- *)
\* the parameters after the media type: a run of ";" key "=" value groups;
\* a trailing ";" is ignored, anything else is an invalid parameter
RECURSIVE consumeParams(_, _)
consumeParams(toks, acc) ==
  IF toks = <<>> \/ toks = << ";" >>
  THEN [err |-> FALSE, boundary |-> acc]
  ELSE IF Len(toks) >= 4 /\ toks[1] = ";" /\ toks[3] = "="
       THEN consumeParams(SubSeq(toks, 5, Len(toks)),
                          IF toks[2] = "boundary" THEN toks[4] ELSE acc)
       ELSE [err |-> TRUE, boundary |-> ""]

\* err: the header is empty or a parameter is malformed; boundary is
\* params["boundary"], the empty string when the parameter is missing
ParseMediaType(h) ==
  IF h = <<>> THEN [err |-> TRUE, boundary |-> ""]
  ELSE consumeParams(Tail(h), "")

(* ------------------------- http.ResponseWriter ------------------------ *)
NoResp == [status |-> 0, disp |-> <<>>, ctype |-> <<>>, etag |-> "", body |-> <<>>]
TextPlain == << "text/plain; charset=utf-8" >>

\* w.Header().Set(k, v): reaches the client only before the status is written
SetHeader(r, k, v) == IF r.status = 0 THEN [r EXCEPT ![k] = v] ELSE r
\* w.WriteHeader(code): a second call is superfluous and changes nothing
WriteHeader(r, code) == IF r.status = 0 THEN [r EXCEPT !.status = code] ELSE r
\* w.Write(b)
Write(r, b) == [WriteHeader(r, 200) EXCEPT !.body = @ \o b]
\* http.Error(w, text, code)
HttpError(r, text, code) ==
  Write(WriteHeader(SetHeader(r, "ctype", TextPlain), code), text)

\* http.NotFound(w, req)
NotFoundMissing(r, text) == r
NotFound(r, text) == HttpError(r, text, 404)

\* the texts of the error responses, as characters (upload) and bytes (get)
BadRequestText == << "4", "0", "0" >>
InternalErrorText == << "5", "0", "0" >>
InternalErrorBytes == << 53, 48, 48 >>
NotFoundBytes == << 52, 48, 52 >>

(* ------------------------------- state -------------------------------- *)
VARIABLES
  BufferSize,   \* ShareXHandler.BufferSize, fixed at construction
  entries,      \* the storage: entry number -> StorageEntry
  nextEntry,    \* number of NewStorageEntry calls so far
  up,           \* the running (or last) handleUploadRequest invocation
  get,          \* the running (or last) handleGetRequest invocation
  uplog,        \* per entry: what the upload that allocated it sent and got
  prev,         \* the last completed GET before the current one
  nUp,          \* upload requests started
  nGet          \* download requests started

vars == << BufferSize, entries, nextEntry, up, get, uplog, prev, nUp, nGet >>

EntryIds == 1..MaxUploads

(* --------------------- Storage and StorageEntry ----------------------- *)
\* The collaborator's contract: an entry is allocated and saved invisible,
\* takes metadata and appended bytes, and becomes resolvable by id when
\* Update succeeds; its ETag is fixed from then on.
Digit == << "1", "2", "3", "4", "5", "6", "7", "8", "9" >>
\* GetId: opaque and unique; every second id holds a dot itself
IdOf(n) == IF n % 2 = 0 THEN << Digit[n], ".", "v" >> ELSE << Digit[n] >>

EmptyEntry ==
  [saved |-> FALSE, contentType |-> <<>>, filename |-> <<>>, data |-> <<>>,
   visible |-> FALSE, etag |-> ""]

\* LoadStorageEntry(id), without its error outcome: the number of the
\* finalized entry of that id, 0 when there is none
LoadStorageEntry(id) ==
  IF \E n \in EntryIds : IdOf(n) = id /\ entries[n].visible
  THEN CHOOSE n \in EntryIds : IdOf(n) = id /\ entries[n].visible
  ELSE 0

\* entry.SetContentType(ct), entry.SetFilename(fn)
SetContentType(e, ct) == [e EXCEPT !.contentType = ct]
SetFilename(e, fn) == [e EXCEPT !.filename = fn]

\* entry.Update(): commit; the storage derives the ETag
UpdateEntry(e, tag) == [e EXCEPT !.visible = TRUE, !.etag = tag]

\* writer.Write(b) taking the first k bytes (k = Len(b) when it succeeds)
WriteEntry(e, b, k) == [e EXCEPT !.data = @ \o SubSeq(b, 1, k)]

(* --------------------------- upload handler --------------------------- *)
UpIdle ==
  [pc |-> "idle", header |-> <<>>, entry |-> 0, id |-> <<>>,
   writerOpen |-> FALSE, closes |-> 0, parts |-> <<>>, part |-> <<>>,
   ctype |-> <<>>, fname |-> <<>>, buf |-> <<>>, resp |-> NoResp,
   panicked |-> FALSE, saveCalled |-> FALSE, updateCalled |-> FALSE,
   updateOpen |-> FALSE, writeFailed |-> FALSE, failedAt |-> "none",
   writerAcquired |-> FALSE, updateOk |-> FALSE, written |-> <<>>,
   metaSets |-> 0]

NoLog == [done |-> FALSE, status |-> 0, panicked |-> FALSE, body |-> <<>>,
          parts |-> <<>>, ctype |-> <<>>, fname |-> <<>>, writeFailed |-> FALSE,
          failedAt |-> "none"]

\* the handler returns (normally or by panic): the deferred writer.Close()
\* of line 67 runs when GetWriter had succeeded; buf and part go out of
\* scope
UpReturn(u) ==
  [u EXCEPT !.pc = "done",
            !.buf = <<>>,
            !.part = <<>>,
            !.closes = IF u.writerOpen THEN @ + 1 ELSE @,
            !.writerOpen = FALSE]

\* http.Error(w, "500 ...", 500) followed by panic(err)
UpFailNoDefer(u, step) ==
  [u EXCEPT !.pc = "done", !.buf = <<>>, !.part = <<>>,
            !.resp = HttpError(u.resp, InternalErrorText, 500),
            !.panicked = TRUE, !.failedAt = step]
UpFail(u, step) ==
  UpReturn([u EXCEPT !.resp = HttpError(u.resp, InternalErrorText, 500),
                     !.panicked = TRUE, !.failedAt = step])

LogOf(u) ==
  [done |-> u.pc = "done", status |-> u.resp.status, panicked |-> u.panicked,
   body |-> u.resp.body, parts |-> u.parts, ctype |-> u.ctype,
   fname |-> u.fname,
   writeFailed |-> u.writeFailed, failedAt |-> u.failedAt]

\* the upload handler reaches state u: record what the client sent and received
UpFinish(u) ==
  /\ up' = u
  /\ uplog' = IF u.entry # 0 THEN [uplog EXCEPT ![u.entry] = LogOf(u)] ELSE uplog

\* the steps of the download handler's loop touch only the response and
\* the reader of a finalized entry, which no upload step changes: they
\* commute with the upload steps, so the upload handler is scheduled
\* between requests and before or after a lookup only
UpMayStep == get.pc # "stream"

\* a POST arrives with Content-Type header h; lines 52-62: ParseMediaType,
\* NewStorageEntry, Save, GetId
UpParse ==
  /\ up.pc \in {"idle", "done"}
  /\ UpMayStep
  /\ nUp < MaxUploads
  /\ nUp' = nUp + 1
  /\ \E h \in UploadHeaders :
       LET u0 == [UpIdle EXCEPT !.header = h]
       IN IF ParseMediaType(h).err
          THEN /\ UpFinish(UpReturn([u0 EXCEPT
                      !.resp = HttpError(u0.resp, BadRequestText, 400),
                      !.failedAt = "parse"]))
               /\ UNCHANGED << entries, nextEntry >>
          ELSE LET n == nextEntry + 1
                   u == [u0 EXCEPT !.entry = n, !.saveCalled = TRUE]
               IN /\ nextEntry' = n
                  /\ \/ /\ UpFinish(UpFail(u, "save"))
                        /\ UNCHANGED entries
                     \/ /\ entries' = [entries EXCEPT ![n].saved = TRUE]
                        /\ UpFinish([u EXCEPT !.pc = "writer", !.id = IdOf(n)])
  /\ UNCHANGED << BufferSize, get, prev, nGet >>

\* lines 63-67: GetWriter, defer writer.Close()
UpGetWriterCommits ==
  /\ up.pc = "writer"
  /\ UpMayStep
  /\ \/ /\ UpFinish(UpFail(up, "writer"))
        /\ UNCHANGED entries
     \/ /\ UpFinish([up EXCEPT !.pc = "first", !.writerOpen = TRUE,
                               !.writerAcquired = TRUE])
        /\ entries' = [entries EXCEPT ![up.entry] = UpdateEntry(@, "e")]
  /\ UNCHANGED << BufferSize, nextEntry, get, prev, nUp, nGet >>
UpGetWriter ==
  /\ up.pc = "writer"
  /\ UpMayStep
  /\ \/ UpFinish(UpFail(up, "writer"))
     \/ UpFinish([up EXCEPT !.pc = "first", !.writerOpen = TRUE,
                            !.writerAcquired = TRUE])
  /\ UNCHANGED << BufferSize, entries, nextEntry, get, prev, nUp, nGet >>

\* lines 70-77: the first NextPart; any error, io.EOF included, is fatal;
\* otherwise the part's Content-Type and file name go to the entry
UpFirstPart ==
  /\ up.pc = "first"
  /\ UpMayStep
  /\ \/ /\ UpFinish(UpFail(up, "firstpart"))
        /\ UNCHANGED entries
     \/ \E p \in FirstParts :
          /\ entries' = [entries EXCEPT
               ![up.entry] = SetFilename(SetContentType(@, p.contentType),
                                         p.filename)]
          /\ UpFinish([up EXCEPT !.pc = "copy", !.part = p.data,
                                 !.parts = Append(@, p.data),
                                 !.ctype = p.contentType,
                                 !.fname = p.filename,
                                 !.metaSets = @ + 1])
  /\ UNCHANGED << BufferSize, nextEntry, get, prev, nUp, nGet >>

\* lines 80-81: buf.Reset(); io.Copy(buf, part): the buffer holds the part
RefillNoReset(buf, part) == buf \o part
Refill(buf, part) == <<>> \o part

\* lines 79-86: buf.Reset(); io.Copy(buf, part) reads the whole part into
\* buf; a copy error is fatal; writer.Write(buf.Bytes()) takes k bytes and
\* its result is dropped
UpCopy ==
  /\ up.pc = "copy"
  /\ UpMayStep
  /\ \/ \E k \in 0..Len(up.part) :
          /\ UpFinish(UpFail([up EXCEPT !.buf = SubSeq(up.part, 1, k)],
                             "copy"))
          /\ UNCHANGED entries
     \/ LET b == Refill(up.buf, up.part)
        IN \E k \in 0..Len(b) :
             /\ entries' = [entries EXCEPT ![up.entry] = WriteEntry(@, b, k)]
             /\ UpFinish([up EXCEPT
                  !.pc = "next",
                  !.buf = b,
                  !.written = Append(@, b),
                  !.part = <<>>,
                  !.writeFailed = @ \/ k < Len(b)])
  /\ UNCHANGED << BufferSize, nextEntry, get, prev, nUp, nGet >>

\* lines 93 and 87-92: the next NextPart: a part, io.EOF or another error
UpNextPart ==
  /\ up.pc = "next"
  /\ UpMayStep
  /\ \/ /\ Len(up.parts) < MaxParts
        /\ \E d \in Datas : UpFinish([up EXCEPT !.pc = "copy", !.part = d,
                                                !.parts = Append(@, d)])
     \/ UpFinish(UpFail(up, "nextpart"))
     \/ UpFinish([up EXCEPT !.pc = "update"])
  /\ UNCHANGED << BufferSize, entries, nextEntry, get, prev, nUp, nGet >>

\* lines 95-99: buf.Reset(); entry.Update()
UpUpdateAfterResponse ==
  /\ up.pc = "update"
  /\ UpMayStep
  /\ LET fn == entries[up.entry].filename
         i == LastIndex(fn, ".")
         url == IF SliceOk(fn, i) THEN ProtocolHost \o up.id \o SliceFrom(fn, i)
                ELSE <<>>
         u == [up EXCEPT !.buf = <<>>, !.updateCalled = TRUE,
                         !.updateOpen = up.writerOpen,
                         !.resp = Write(WriteHeader(@, 200), url)]
     IN \/ /\ UpFinish(UpFail(u, "update"))
           /\ UNCHANGED entries
        \/ \E tag \in ETags :
             /\ entries' = [entries EXCEPT ![up.entry] = UpdateEntry(@, tag)]
             /\ UpFinish(UpReturn([u EXCEPT !.updateOk = TRUE]))
  /\ UNCHANGED << BufferSize, nextEntry, get, prev, nUp, nGet >>
UpUpdate ==
  /\ up.pc = "update"
  /\ UpMayStep
  /\ LET u == [up EXCEPT !.buf = <<>>, !.updateCalled = TRUE,
                         !.updateOpen = up.writerOpen]
     IN \/ /\ UpFinish(UpFail(u, "update"))
           /\ UNCHANGED entries
        \/ \E tag \in ETags :
             /\ entries' = [entries EXCEPT ![up.entry] = UpdateEntry(@, tag)]
             /\ UpFinish([u EXCEPT !.pc = "respond", !.updateOk = TRUE])
  /\ UNCHANGED << BufferSize, nextEntry, get, prev, nUp, nGet >>

\* lines 100-102: WriteHeader(200), then the URL is built from the file
\* name's last dot; the slice panics when there is none
UpRespond ==
  /\ up.pc = "respond"
  /\ UpMayStep
  /\ LET fn == entries[up.entry].filename
         i == LastIndex(fn, ".")
         r == WriteHeader(up.resp, 200)
     IN IF SliceOk(fn, i)
        THEN UpFinish(UpReturn([up EXCEPT
               !.resp = Write(r, ProtocolHost \o up.id \o SliceFrom(fn, i))]))
        ELSE UpFinish(UpReturn([up EXCEPT !.resp = r, !.panicked = TRUE,
                                          !.failedAt = "url"]))
  /\ UNCHANGED << BufferSize, entries, nextEntry, get, prev, nUp, nGet >>

(* -------------------------- download handler -------------------------- *)
GetIdle ==
  [pc |-> "idle", path |-> <<>>, inm |-> "", lookup |-> "none", entry |-> 0,
   readerOpen |-> FALSE, readerAcquired |-> FALSE, pos |-> 0,
   resp |-> NoResp, panicked |-> FALSE, fault |-> "none", early |-> FALSE]

NoPrev == [valid |-> FALSE, entry |-> 0, resp |-> NoResp, fault |-> "none"]

\* the {id} path variable of a request for a URL the upload handler returned
PathParam(url) == SliceFrom(url, Len(ProtocolHost))

\* the upload of entry n answered 200 with a URL
Issued(n) ==
  /\ uplog[n].done
  /\ uplog[n].status = 200
  /\ ~uplog[n].panicked

\* the {id} values a client may ask for: the URLs handed out, the ids with
\* another extension, an id never allocated, and one without a dot
RequestPaths ==
  { PathParam(uplog[n].body) : n \in { m \in EntryIds : Issued(m) } }
    \cup { IdOf(n) \o << ".", "z" >> : n \in EntryIds }
    \cup { << "0", ".", "g" >>, << "1" >> }

\* lines 133-140: the first whitelist member equal to the content type
\* under case folding makes the file inline, none makes it an attachment
Disposition(ct, fn) ==
  IF \E i \in 1..Len(WhitelistedContentTypes) :
       EqualFold(WhitelistedContentTypes[i], ct)
  THEN dispositionValueFormat("inline", fn)
  ELSE dispositionValueFormat("attachment", fn)

\* line 125: req.Header.Get("If-None-Match") == entry.GetETagValue()
NotModifiedAnyTag(inm, etag) == inm # ""
NotModified(inm, etag) == inm = etag

\* lines 133-143: the headers, then the status line
GetHeaders(r, e) ==
  WriteHeader(
    SetHeader(
      SetHeader(
        SetHeader(r, "disp", Disposition(e.contentType, e.filename)),
        "ctype", e.contentType),
      "etag", e.etag),
    200)

\* http.Error(w, "500 ...", 500) followed by panic(err)
GetFail(g, why) ==
  [g EXCEPT !.pc = "done", !.panicked = TRUE, !.fault = why,
            !.resp = HttpError(g.resp, InternalErrorBytes, 500)]

\* what is kept of a finished GET that carried no If-None-Match header and
\* found its entry
PrevOf(g) ==
  IF g.pc = "done" /\ g.lookup = "found" /\ g.inm = ""
  THEN [valid |-> TRUE, entry |-> g.entry, resp |-> g.resp, fault |-> g.fault]
  ELSE prev

\* the response to a GET for path variable p with If-None-Match h, up to
\* the loop; lines 117-143: the id is p up to its last dot (the slice
\* panics when there is none); LoadStorageEntry; 404, 304, or GetReader
\* and the headers.  The outcomes of LoadStorageEntry and GetReader are the
\* storage's choice: the set holds one result for each.
GetOutcomes(g0) ==
  LET i == LastIndex(g0.path, ".")
  IN IF ~SliceOk(g0.path, i)
     THEN { [g0 EXCEPT !.pc = "done", !.panicked = TRUE, !.fault = "id"] }
     ELSE
       LET n == LoadStorageEntry(SliceTo(g0.path, i))
           g == [g0 EXCEPT !.lookup = "found", !.entry = n]
       IN { GetFail([g0 EXCEPT !.lookup = "error"], "lookup") }
          \cup
          (IF n = 0
           THEN { [g0 EXCEPT !.pc = "done", !.lookup = "notfound",
                     !.resp = NotFound(g0.resp, NotFoundBytes)] }
           ELSE IF NotModified(g0.inm, entries[n].etag)
                THEN { [g EXCEPT !.pc = "done",
                          !.resp = WriteHeader(g.resp, 304)] }
                ELSE { GetFail(g, "reader"),
                       [g EXCEPT !.pc = "stream",
                          !.readerOpen = TRUE,
                          !.readerAcquired = TRUE,
                          !.resp = GetHeaders(g.resp, entries[n])] })

\* the path variable p names the entry of the upload in progress, whose
\* entry.Update() has not yet returned without error
Early(p) ==
  /\ up.entry # 0
  /\ up.pc # "done"
  /\ ~up.updateOk
  /\ SliceOk(p, LastIndex(p, "."))
  /\ SliceTo(p, LastIndex(p, ".")) = IdOf(up.entry)

\* a GET arrives and runs up to its loop; the finished GET before it is
\* remembered
GetLookup ==
  /\ get.pc \in {"idle", "done"}
  /\ nGet < MaxGets
  /\ nGet' = nGet + 1
  /\ prev' = PrevOf(get)
  /\ \E p \in RequestPaths, h \in IfNoneMatchValues :
       get' \in GetOutcomes([GetIdle EXCEPT !.path = p, !.inm = h,
                                            !.early = Early(p)])
  /\ UNCHANGED << BufferSize, entries, nextEntry, up, uplog, nUp >>

\* the byte counts reader.Read(buf) may return with len(buf) = size and
\* left bytes unread: 0 for an empty buffer or at the end of the stream
ReadCounts(size, left) ==
  IF size = 0 \/ left = 0 THEN {0}
  ELSE 1..(IF size < left THEN size ELSE left)

\* lines 146-150: Read returned chunk and an error other than io.EOF: the
\* chunk is dropped, http.Error is called on the response
OnReadErrorAfterWrite(r, chunk) ==
  HttpError(Write(r, chunk), InternalErrorBytes, 500)
OnReadError(r, chunk) == HttpError(r, InternalErrorBytes, 500)

\* lines 144-157, one turn of the loop: Read into a buffer of BufferSize
\* bytes; an error other than io.EOF is fatal; zero bytes end the loop;
\* otherwise the chunk is written and a write error is fatal.  The reader
\* is not closed on any path.
GetStream ==
  /\ get.pc = "stream"
  /\ LET data == entries[get.entry].data
         left == Len(data) - get.pos
     IN \/ \E k \in ReadCounts(BufferSize, left) :
             get' = [get EXCEPT
               !.pc = "done", !.panicked = TRUE, !.fault = "read",
               !.resp = OnReadError(@, SubSeq(data, get.pos + 1, get.pos + k))]
        \/ \E k \in ReadCounts(BufferSize, left) :
             IF k = 0
             THEN get' = [get EXCEPT !.pc = "done"]
             ELSE \/ get' = [get EXCEPT
                       !.pos = @ + k,
                       !.resp = Write(@, SubSeq(data, get.pos + 1, get.pos + k))]
                  \/ get' = [get EXCEPT !.pc = "done", !.panicked = TRUE,
                                        !.fault = "write"]
  /\ UNCHANGED << BufferSize, entries, nextEntry, up, uplog, prev, nUp, nGet >>

(* --------------------------- specification ---------------------------- *)
Init ==
  /\ BufferSize \in 0..MaxBuf
  /\ entries = [n \in EntryIds |-> EmptyEntry]
  /\ nextEntry = 0
  /\ up = UpIdle
  /\ get = GetIdle
  /\ uplog = [n \in EntryIds |-> NoLog]
  /\ prev = NoPrev
  /\ nUp = 0
  /\ nGet = 0

Next ==
  \/ UpParse
  \/ UpGetWriter
  \/ UpFirstPart
  \/ UpCopy
  \/ UpNextPart
  \/ UpUpdate
  \/ UpRespond
  \/ GetLookup
  \/ GetStream

Spec == Init /\ [][Next]_vars

(* ------------------------------ claims -------------------------------- *)
\* the final dot-suffix of a file name that has a dot
Extension(fn) == SliceFrom(fn, LastIndex(fn, "."))
EndsWith(s, t) ==
  Len(t) <= Len(s) /\ SubSeq(s, Len(s) - Len(t) + 1, Len(s)) = t
\* the current GET has returned, asked for the URL the upload of entry n
\* returned, and met no storage or connection fault
FetchedBack(n) ==
  /\ Issued(n)
  /\ get.pc = "done"
  /\ get.path = PathParam(uplog[n].body)
  /\ get.fault = "none"

\* C1: round trip: an upload of one part with a dotted file name that is
\* answered 200 (every write to the sink having succeeded) returns a URL
\* ending in the file name's final dot-suffix, and a GET of that URL whose
\* If-None-Match differs from the ETag (and that meets no fault) returns
\* 200, the uploaded bytes and the uploaded content type.
C1_RoundTrip ==
  \A n \in EntryIds :
    (/\ Issued(n)
     /\ Len(uplog[n].parts) = 1
     /\ LastIndex(uplog[n].fname, ".") >= 0
     /\ ~uplog[n].writeFailed)
    => /\ EndsWith(uplog[n].body, Extension(uplog[n].fname))
       /\ (FetchedBack(n) /\ get.inm # entries[n].etag)
          => /\ get.resp.status = 200
             /\ get.resp.body = uplog[n].parts[1]
             /\ get.resp.ctype = uplog[n].ctype

\* the Content-Type header of an upload has no usable boundary
Malformed(h) == ParseMediaType(h).err \/ ParseMediaType(h).boundary = ""

\* C2: malformed upload: an upload whose Content-Type lacks a boundary
\* parameter or does not parse is answered 400, and NewStorageEntry and
\* Save are not invoked for it.
C2_MalformedUpload ==
  (up.pc # "idle" /\ Malformed(up.header))
  => /\ up.resp.status = 400
     /\ ~up.saveCalled
     /\ up.entry = 0

\* the upload that allocated entry n has returned without a 200 and a URL
UploadFailed(n) == uplog[n].done /\ ~Issued(n)

\* C3: no ghost entries: after an upload that failed, the entry it
\* allocated is not resolvable (LoadStorageEntry of its id reports not
\* found); after a successful upload exactly its one entry is.
C3_NoGhostEntries ==
  \A n \in EntryIds :
    /\ UploadFailed(n) => LoadStorageEntry(IdOf(n)) = 0
    /\ Issued(n) => LoadStorageEntry(IdOf(n)) = n

\* the upload that allocated entry n failed at a step up to finalization;
\* the storage contract then keeps the entry unresolvable
NoGhostBeforeFinalize ==
  \A n \in EntryIds :
    (uplog[n].done /\ uplog[n].failedAt \in
       {"save", "writer", "firstpart", "copy", "nextpart", "update"})
    => LoadStorageEntry(IdOf(n)) = 0

\* C4: conditional GET: when the entry is found and If-None-Match equals
\* its ETag the response is 304 with no body and no reader was opened;
\* when the header differs the response is not 304.
C4_ConditionalGet ==
  get.lookup = "found"
  => IF get.inm = entries[get.entry].etag
     THEN /\ get.pc = "done"
          /\ get.resp.status = 304
          /\ get.resp.body = <<>>
          /\ ~get.readerAcquired
          /\ get.fault # "reader"
     ELSE get.resp.status # 304

C4_Witness ==
  /\ get.lookup = "found"
  /\ get.inm # ""
  /\ get.inm = entries[get.entry].etag
  /\ get.resp.status = 304

\* C5: unknown id: a lookup that reports not found ends the request with
\* 404, without a reader, entry headers or entry bytes; a lookup error
\* gives 500.
C5_UnknownId ==
  /\ get.lookup = "notfound"
     => /\ get.pc = "done"
        /\ get.resp.status = 404
        /\ ~get.readerAcquired
        /\ get.fault = "none"
        /\ get.resp.disp = <<>>
        /\ get.resp.etag = ""
        /\ get.resp.ctype = TextPlain
        /\ get.resp.body = NotFoundBytes
  /\ get.lookup = "error" => get.resp.status = 500

C5_Witness ==
  /\ get.lookup = "notfound"
  /\ get.resp.status = 404
  /\ \E n \in EntryIds : entries[n].saved /\ get.path = IdOf(n) \o << ".", "z" >>

\* a string with every character folded to lower case
LowerCase(s) == [i \in 1..Len(s) |-> Fold(s[i])]
Whitelisted(ct) ==
  LowerCase(ct) \in { LowerCase(WhitelistedContentTypes[i]) :
                        i \in 1..Len(WhitelistedContentTypes) }

\* C6: disposition policy: a found entry served with 200 carries
\* Content-Disposition inline; filename="<filename>" exactly when its
\* content type equals a whitelist member regardless of case, and
\* attachment; filename="<filename>" otherwise; the header is in place when
\* the status line is written.
C6_Disposition ==
  (get.lookup = "found" /\ get.resp.status = 200)
  => LET e == entries[get.entry]
     IN get.resp.disp =
          << (IF Whitelisted(e.contentType) THEN "inline" ELSE "attachment"),
             "; filename=\"", e.filename, "\"" >>

C6_Witness ==
  /\ get.lookup = "found"
  /\ get.resp.status = 200
  /\ get.resp.body # <<>>
  /\ entries[get.entry].contentType = << "I", "/", "P" >>
  /\ get.resp.disp[1] = "inline"

\* C7: idempotent reads: every GET of a finalized entry that carries no
\* If-None-Match header (and meets no fault) returns 200, and two of them
\* for the same entry return the same body and the same ETag.
C7_IdempotentReads ==
  (get.pc = "done" /\ get.lookup = "found" /\ get.inm = "" /\ get.fault = "none")
  => /\ get.resp.status = 200
     /\ (prev.valid /\ prev.entry = get.entry /\ prev.fault = "none")
        => /\ prev.resp.body = get.resp.body
           /\ prev.resp.etag = get.resp.etag

\* C8: a failed write to the entry's write sink ends the upload with 500,
\* never with 200.
C8_WriteFailure ==
  (up.pc = "done" /\ up.writeFailed) => up.resp.status = 500

\* C9: a GET whose GetReader or Read fails is answered with status 500.
C9_ReadFailure ==
  (get.pc = "done" /\ get.fault \in {"reader", "read"})
  => get.resp.status = 500

\* C10: when handleGetRequest returns after GetReader succeeded, the read
\* source has been closed.
C10_ReaderReleased ==
  (get.pc = "done" /\ get.readerAcquired) => ~get.readerOpen

\* C11: write sink release: when handleUploadRequest has returned, the
\* sink was closed exactly once if GetWriter had succeeded (whatever the
\* exit path) and never otherwise; it is not closed while the handler runs.
C11_WriterReleased ==
  /\ up.pc = "done"
     => /\ ~up.writerOpen
        /\ up.closes = (IF up.writerAcquired THEN 1 ELSE 0)
  /\ up.pc # "done" => up.closes = 0 /\ up.writerOpen = up.writerAcquired

C11_Witness ==
  /\ up.pc = "done"
  /\ up.writerAcquired
  /\ up.panicked
  /\ up.failedAt = "copy"
  /\ up.closes = 1

\* C12: dot-less filename on upload: an upload whose first part's file name
\* has no dot is not answered with status 200 and does not fault on the
\* extension.
C12_DotlessFilename ==
  (up.pc = "done" /\ up.updateOk /\ LastIndex(up.fname, ".") < 0)
  => /\ up.resp.status # 200
     /\ up.failedAt # "url"

\* C13: dot-less id on download: a GET whose path variable has no dot ends
\* with an error response, not with a fault and no response.
C13_DotlessId ==
  (get.pc = "done" /\ LastIndex(get.path, ".") < 0)
  => /\ get.resp.status # 0
     /\ ~get.panicked

\* the response carries nothing of the entry: no body or an error text
NoUrl(body) == body \in { <<>>, InternalErrorText, BadRequestText }

\* C14: success response and id exposure: status 200 and the body
\* ProtocolHost + id + extension are written only after entry.Update has
\* returned without error; before that the response holds no id; the id
\* in the body is the id of the entry this request created.
C14_IdAfterFinalize ==
  /\ up.resp.status = 200 => up.updateOk
  /\ ~up.updateOk => NoUrl(up.resp.body)
  /\ (up.pc = "done" /\ ~up.panicked /\ up.resp.status = 200)
     => /\ up.entry # 0
        /\ up.resp.body =
             ProtocolHost \o IdOf(up.entry) \o Extension(up.fname)

C14_Witness ==
  /\ up.pc = "done"
  /\ up.resp.status = 200
  /\ up.updateOk
  /\ up.resp.body = ProtocolHost \o IdOf(up.entry) \o << ".", "g" >>

\* C15: default buffer size: with BufferSize left at zero a GET of a
\* finalized entry (that meets no fault) still streams the complete body.
C15_DefaultBufferSize ==
  (/\ BufferSize = 0
   /\ get.pc = "done"
   /\ get.lookup = "found"
   /\ get.resp.status = 200
   /\ get.fault = "none")
  => get.resp.body = entries[get.entry].data

\* the bytes of its entry a GET has written so far
Streamed == SubSeq(entries[get.entry].data, 1, get.pos)

C17_ReleaseBeforeFinalize ==
  up.updateCalled => ~up.updateOpen

C19_BoundedUploadBuffer ==
  Len(up.buf) <= BufferSize

RECURSIVE Concat(_)
Concat(ss) == IF ss = <<>> THEN <<>> ELSE Head(ss) \o Concat(Tail(ss))

\* the multipart stream of the upload has ended with io.EOF
StreamEnded ==
  \/ up.pc \in {"update", "respond"}
  \/ up.pc = "done" /\ up.failedAt \in {"none", "update", "url"} /\ up.updateCalled

\* C20: multi-part uploads: when the stream delivers parts P1..Pn and then
\* io.EOF, the handler has called writer.Write once per part with P1..Pn in
\* order, so the sink holds their concatenation (each write accepted);
\* SetContentType and SetFilename were called once, with P1's values; a
\* NextPart error after a part ends the request with 500 and without
\* Update.
C20_MultiPart ==
  /\ StreamEnded
     => /\ Len(up.parts) >= 1
        /\ up.written = up.parts
        /\ ~up.writeFailed => entries[up.entry].data = Concat(up.parts)
        /\ up.metaSets = 1
        /\ entries[up.entry].contentType = up.ctype
        /\ entries[up.entry].filename = up.fname
  /\ (up.pc = "done" /\ up.failedAt = "nextpart")
     => /\ up.resp.status = 500
        /\ ~up.updateCalled
        /\ ~entries[up.entry].visible

C20_Witness ==
  /\ up.pc = "respond"
  /\ Len(up.parts) = 2
  /\ up.parts[1] # <<>>
  /\ up.parts[2] # <<>>
  /\ up.parts[1] # up.parts[2]
  /\ ~up.writeFailed
  /\ entries[up.entry].data = up.parts[1] \o up.parts[2]

====
